---- MODULE Spec2Model ----
(***************************************************************************)
(* Model of proxy_benchmark.py: the asyncio probing scheduler              *)
(* (try_proxy / run_tests under the global semaphore), the history store   *)
(* (load_history / merge / save_history) and the scoring and selection     *)
(* steps of main (specification Spec); and of test_proxies_speed.py: the   *)
(* worker threads of its pool, progress_lock and save_progress              *)
(* (specification SpecSpeed).                                               *)
(*                                                                          *)
(* Numbers.  Python floats are modelled as fixed-point integers in         *)
(* thousandths ("milli"): a score of 2.487 is 2487.  Means are kept as     *)
(* exact fractions [num, den] and compared by cross-multiplication.        *)
(***************************************************************************)
EXTENDS Integers, Sequences, FiniteSets, TLC

\* ---------------------------------------------------------------- bounds
\* Proxy addresses (host:port strings) that may appear in the input files.
Addr == {"a", "b"}

\* Largest total number of lines over the three proxy files of one run.
MaxProxies == 3

\* Number of invocations of the program (runs of main) that are explored.
MaxRuns == 3

\* Largest total number of probes over all the runs of one behaviour.
MaxProbes == 4

\* Largest number of lines of the proxy file of test_proxies_speed.py.
MaxTotal == 4
\* Runs followed under the fair specification.
MaxFairRuns == 2

\* ------------------------------------------------- program constants
\* The settings of proxy_benchmark.py, scaled down so that their limits are
\* reached with MaxProxies proxies (source values: 200, 150, 10, 3).
CONCURRENT_LIMIT == 2
TOP_N_COUNT == 2
HISTORY_MAX_RUNS == 3
MIN_TESTS_FOR_FAIL == 2

\* The settings of test_proxies_speed.py, scaled down likewise (source
\* values: 125, 5000).
MAX_THREADS == 2
SAVE_INTERVAL == 2

\* The value of lat / spd in the result of a failed probe (Python None).
None == -1

\* What a probe that got a 200/206 answer measured: the bytes it read (in
\* MiB) and the seconds it took (in ms).
Measurements ==
    { [total |-> 10, elapsed |-> 2000] }

\* ------------------------------------------------------ pure helpers
\* try_proxy: speed = total / elapsed / 1024 / 1024 (MB/s, in milli).
Speed(m) == (m.total * 1000 * 1000) \div m.elapsed

\* try_proxy: score = speed / (latency + 0.01), latency = elapsed.
Score(m) == (Speed(m) * 1000) \div (m.elapsed + 10)

\* The tuple try_proxy returns on success.
GoodResult(p, scheme, m) ==
    [proxy |-> p, scheme |-> scheme, lat |-> m.elapsed, spd |-> Speed(m),
     sc |-> Score(m), success |-> TRUE]

\* Variant of BadResult: the score of a failed probe is left unset.
BadResultNoScore(p, scheme) ==
    [proxy |-> p, scheme |-> scheme, lat |-> None, spd |-> None,
     sc |-> None, success |-> FALSE]

\* Variant of BadResult: a failed probe is given a small score, not zero.
BadResultSmallScore(p, scheme) ==
    [proxy |-> p, scheme |-> scheme, lat |-> None, spd |-> None,
     sc |-> 10, success |-> FALSE]

\* The tuple try_proxy returns from its except branch.
BadResult(p, scheme) ==
    [proxy |-> p, scheme |-> scheme, lat |-> None, spd |-> None,
     sc |-> 0, success |-> FALSE]

\* f"{score:.2f}": the text of a score, as its number of hundredths.
Fmt2(score) == (score + 5) \div 10

\* float(row['Score']): the number a written score reads back as.
ParseFloat(text) == text * 10

\* Variant of DequeAppend: a full deque drops its newest entry.
DequeAppendDropNewest(d, e) ==
    IF Len(d) < HISTORY_MAX_RUNS THEN Append(d, e)
    ELSE Append(SubSeq(d, 1, Len(d) - 1), e)

\* deque(maxlen=HISTORY_MAX_RUNS).append: drops the leftmost when full.
DequeAppend(d, e) ==
    IF Len(d) < HISTORY_MAX_RUNS THEN Append(d, e) ELSE Append(Tail(d), e)

\* Position of proxy p among the keys of the history dict, 0 if absent.
KeyIndex(h, p) ==
    IF \E i \in 1..Len(h) : h[i].proxy = p
    THEN CHOOSE i \in 1..Len(h) : h[i].proxy = p
    ELSE 0

\* history[proxy].append(e) on the defaultdict of deques: a new key goes
\* last in the dict's insertion order.
HistAppend(h, p, e) ==
    IF KeyIndex(h, p) = 0
    THEN Append(h, [proxy |-> p, entries |-> DequeAppend(<<>>, e)])
    ELSE [h EXCEPT ![KeyIndex(h, p)].entries = DequeAppend(@, e)]

\* history[proxy] read: the entries of p (empty for a key not present).
Entries(h, p) ==
    IF KeyIndex(h, p) = 0 THEN <<>> ELSE h[KeyIndex(h, p)].entries

RECURSIVE LoadRowsSuccessText(_, _)
\* Variant of LoadRows: the Success column is compared with "True".
LoadRowsSuccessText(rows, h) ==
    IF rows = <<>> THEN h
    ELSE LoadRowsSuccessText(
            Tail(rows),
            HistAppend(h, Head(rows).Proxy,
                       [score |-> ParseFloat(Head(rows).Score),
                        success |-> Head(rows).Success = "True"]))

RECURSIVE LoadRows(_, _)
\* load_history's loop over the rows of the file.
LoadRows(rows, h) ==
    IF rows = <<>> THEN h
    ELSE LoadRows(Tail(rows),
                  HistAppend(h, Head(rows).Proxy,
                             [score |-> ParseFloat(Head(rows).Score),
                              success |-> Head(rows).Success = "1"]))

\* Variant of load_history: the file is never found.
load_historyNotFound(file) == <<>>

\* load_history: an empty history when the file does not exist.
load_history(file) ==
    IF file.exists THEN LoadRows(file.rows, <<>>) ELSE <<>>

RECURSIVE EntryRows(_, _)
\* save_history's inner loop: one row per entry of one proxy.
EntryRows(p, entries) ==
    IF entries = <<>> THEN <<>>
    ELSE <<[Proxy |-> p, Score |-> Fmt2(Head(entries).score),
            Success |-> IF Head(entries).success THEN "1" ELSE "0"]>>
         \o EntryRows(p, Tail(entries))

RECURSIVE HistoryRows(_)
\* save_history's outer loop over history.items().
HistoryRows(h) ==
    IF h = <<>> THEN <<>>
    ELSE EntryRows(Head(h).proxy, Head(h).entries) \o HistoryRows(Tail(h))

\* save_history: the file is rewritten whole.
save_history(h) == [exists |-> TRUE, rows |-> HistoryRows(h)]

RECURSIVE MergeResults(_, _)
\* main: for ... in all_results: history[proxy].append((sc, success)).
MergeResults(h, res) ==
    IF res = <<>> THEN h
    ELSE MergeResults(HistAppend(h, Head(res).proxy,
                                 [score |-> Head(res).sc,
                                  success |-> Head(res).success]),
                      Tail(res))

\* ------------------------------------------------ scoring, selection
RECURSIVE SumScores(_)
\* sum(score for score, _ in entries)
SumScores(entries) ==
    IF entries = <<>> THEN 0
    ELSE Head(entries).score + SumScores(Tail(entries))

\* [(score, succ) for ... in entries if succ]
Successes(entries) == SelectSeq(entries, LAMBDA e : e.success)

\* Variant of LongTerm: the mean is taken over the successful entries.
LongTermOverSuccesses(entries, sc) ==
    IF Successes(entries) # <<>>
    THEN [num |-> SumScores(Successes(entries)),
          den |-> Len(Successes(entries))]
    ELSE [num |-> sc, den |-> 1]

\* main, line 139: lt = sum(scores) / len(entries) if entries else sc
LongTerm(entries, sc) ==
    IF entries # <<>>
    THEN [num |-> SumScores(entries), den |-> Len(entries)]
    ELSE [num |-> sc, den |-> 1]

\* Variant of ResponseRate: a fraction of 1, the factor 100 forgotten.
ResponseRateNoPercent(entries, success) ==
    IF entries # <<>>
    THEN [num |-> Len(Successes(entries)), den |-> Len(entries)]
    ELSE [num |-> IF success THEN 1 ELSE 0, den |-> 1]

\* Variant of ResponseRate: the rate is taken over the capacity of the
\* history, not over the entries it holds.
ResponseRateOverCapacity(entries, success) ==
    IF entries # <<>>
    THEN [num |-> 100 * Len(Successes(entries)), den |-> HISTORY_MAX_RUNS]
    ELSE [num |-> IF success THEN 100 ELSE 0, den |-> 1]

\* main, line 140: rr = successes / len(entries) * 100, or 100 / 0.
ResponseRate(entries, success) ==
    IF entries # <<>>
    THEN [num |-> 100 * Len(Successes(entries)), den |-> Len(entries)]
    ELSE [num |-> IF success THEN 100 ELSE 0, den |-> 1]

\* main, lines 141-142: ra = sum(ss) / len(ss) if ss else 0.0
ResponseAvg(entries) ==
    IF Successes(entries) # <<>>
    THEN [num |-> SumScores(Successes(entries)),
          den |-> Len(Successes(entries))]
    ELSE [num |-> 0, den |-> 1]

\* main, lines 137-143: the report row of one result.
Row(res, h) ==
    [proxy |-> res.proxy, scheme |-> res.scheme, lat |-> res.lat,
     spd |-> res.spd, sc |-> res.sc,
     lt |-> LongTerm(Entries(h, res.proxy), res.sc),
     rr |-> ResponseRate(Entries(h, res.proxy), res.success),
     ra |-> ResponseAvg(Entries(h, res.proxy))]

\* rows = [Row(r) for r in all_results]
Rows(res, h) == [i \in 1..Len(res) |-> Row(res[i], h)]

\* Comparison of two fractions with positive denominators.
FracLess(x, y) == x.num * y.den < y.num * x.den

FracEq(x, y) == x.num * y.den = y.num * x.den

\* Variant of InsertDesc: ascending order (reverse=True forgotten).
InsertAsc(sorted, r) ==
    LET before == {i \in 1..Len(sorted) : ~FracLess(r.lt, sorted[i].lt)}
        k == Cardinality(before)
    IN  SubSeq(sorted, 1, k) \o <<r>> \o SubSeq(sorted, k + 1, Len(sorted))

\* One step of the stable descending sort: r goes after every row whose
\* key is greater than or equal to its own.
InsertDesc(sorted, r) ==
    LET before == {i \in 1..Len(sorted) : ~FracLess(sorted[i].lt, r.lt)}
        k == Cardinality(before)
    IN  SubSeq(sorted, 1, k) \o <<r>> \o SubSeq(sorted, k + 1, Len(sorted))

RECURSIVE SortDesc(_, _)
SortDesc(rows, acc) ==
    IF rows = <<>> THEN acc
    ELSE SortDesc(Tail(rows), InsertDesc(acc, Head(rows)))

\* main, line 145: sorted(rows, key=lambda r: r[5], reverse=True); Python's
\* sort is stable, also with reverse=True.
Sorted(rows) == SortDesc(rows, <<>>)

\* main, line 163: sorted_rows[:TOP_N_COUNT]
TopSlice(rows) ==
    SubSeq(rows, 1, IF Len(rows) < TOP_N_COUNT THEN Len(rows) ELSE TOP_N_COUNT)

\* Variant of IsFailed: more than MIN_TESTS_FOR_FAIL entries are required.
IsFailedStrict(entries) ==
    /\ Len(entries) > MIN_TESTS_FOR_FAIL
    /\ \A i \in (Len(entries) - MIN_TESTS_FOR_FAIL + 1)..Len(entries) :
          ~entries[i].success

\* Variant of IsFailed: the first MIN_TESTS_FOR_FAIL entries are tested.
IsFailedOldest(entries) ==
    /\ Len(entries) >= MIN_TESTS_FOR_FAIL
    /\ \A i \in 1..MIN_TESTS_FOR_FAIL : ~entries[i].success

\* main, lines 124-126: the last MIN_TESTS_FOR_FAIL entries all failed.
IsFailed(entries) ==
    /\ Len(entries) >= MIN_TESTS_FOR_FAIL
    /\ \A i \in (Len(entries) - MIN_TESTS_FOR_FAIL + 1)..Len(entries) :
          ~entries[i].success

\* Variant of IsResponded: only the latest entry is tested.
IsRespondedLatest(entries) ==
    entries # <<>> /\ entries[Len(entries)].success

\* main, lines 127-128: any(succ for _, succ in entries)
IsResponded(entries) == \E i \in 1..Len(entries) : entries[i].success

RECURSIVE FailedOf(_)
\* main, lines 121-126: the failed list, in the order of history.items().
FailedOf(h) ==
    IF h = <<>> THEN <<>>
    ELSE (IF IsFailed(Head(h).entries) THEN <<Head(h).proxy>> ELSE <<>>)
         \o FailedOf(Tail(h))

RECURSIVE RespondedOf(_)
\* main, lines 122-128: the responded list, in the order of history.items().
RespondedOf(h) ==
    IF h = <<>> THEN <<>>
    ELSE (IF IsResponded(Head(h).entries) THEN <<Head(h).proxy>> ELSE <<>>)
         \o RespondedOf(Tail(h))

\* -------------------------------------------------------------- state
VARIABLES
    pc,            \* where main is: "idle" (no process), the scheme whose
                   \* run_tests is awaited, "merge", "classify", "report",
                   \* or "crashed" (an exception left main)
    runs,          \* number of runs of main started so far
    http_list,     \* load_proxies(PROXY_FILE_HTTP)
    socks5_list,   \* load_proxies(PROXY_FILE_SOCKS5)
    socks4_list,   \* load_proxies(PROXY_FILE_SOCKS4)
    tasks,         \* run_tests: state of each try_proxy task of the batch
    sem,           \* value of the asyncio.Semaphore
    completed,     \* as_completed: finished tasks not yet awaited by the loop
    results,       \* run_tests: results
    all_results,   \* main: all_results
    good,          \* global list good
    bad,           \* global list bad
    history_file,  \* contents of HISTORY_FILE on disk
    history,       \* main: history, the dict in insertion order
    failed,        \* main: failed
    responded,     \* main: responded
    sorted_rows,   \* main: sorted_rows (the report and the rotation list)
    top_n,         \* main: top_n
    probes,        \* number of proxies submitted over all runs so far
    log            \* every (score, success) ever appended to a proxy's
                   \* persisted history, with the run that appended it

\* The state of test_proxies_speed.py.
VARIABLES
    speed_pc,        \* where its main is: "start", "pool" (inside the
                     \* with ThreadPoolExecutor block), "joined", "done"
    total_proxies,   \* global total_proxies
    next_task,       \* executor: index of the next proxy to hand out
    worker_pc,       \* per worker thread: where it is in test_proxy
    worker_proxy,    \* per worker thread: the proxy it is testing
    progress_lock,   \* holder of progress_lock, 0 when it is free
    progress_count,  \* global progress_count
    speed_good,      \* global list good of test_proxies_speed.py
    speed_bad,       \* global list bad of test_proxies_speed.py
    csv_rows,        \* global list csv_rows
    snapshot         \* what save_progress last wrote to the three files,
                     \* the number of times it ran, and progress_count then

mainVars == <<pc, runs, http_list, socks5_list, socks4_list, tasks, sem,
              completed, results, all_results, good, bad, history_file,
              history, failed, responded, sorted_rows, top_n, probes, log>>

speedVars == <<speed_pc, total_proxies, next_task, worker_pc, worker_proxy,
               progress_lock, progress_count, speed_good, speed_bad,
               csv_rows, snapshot>>

vars == <<mainVars, speedVars>>

\* The worker threads of the pool.
Workers == 1..MAX_THREADS

Schemes == {"http", "socks5", "socks4"}

\* The proxy list that run_tests(pc) was called with.
Proxies ==
    CASE pc = "http" -> http_list
      [] pc = "socks5" -> socks5_list
      [] pc = "socks4" -> socks4_list
      [] OTHER -> <<>>

\* Lists of at most n addresses.
ListsUpTo(n) == UNION {[1..k -> Addr] : k \in 0..n}

\* Variant of NewTasks: the last proxy of the list is skipped.
NewTasksSkipLast(proxies) == [i \in 1..(Len(proxies) - 1) |-> "pending"]

\* tasks = [try_proxy(session, p, scheme) for p in proxies]
NewTasks(proxies) == [i \in 1..Len(proxies) |-> "pending"]

InFlight == {i \in 1..Len(tasks) : tasks[i] = "inflight"}

Init ==
    /\ pc = "idle"
    /\ runs = 0
    /\ http_list = <<>>
    /\ socks5_list = <<>>
    /\ socks4_list = <<>>
    /\ tasks = <<>>
    /\ sem = CONCURRENT_LIMIT
    /\ completed = <<>>
    /\ results = <<>>
    /\ all_results = <<>>
    /\ good = <<>>
    /\ bad = <<>>
    /\ history_file = [exists |-> FALSE, rows |-> <<>>]
    /\ history = <<>>
    /\ failed = <<>>
    /\ responded = <<>>
    /\ sorted_rows = <<>>
    /\ top_n = <<>>
    /\ probes = 0
    /\ log = [p \in Addr |-> <<>>]
    /\ speed_pc = "start"
    /\ total_proxies = 0
    /\ next_task = 1
    /\ worker_pc = [w \in Workers |-> "idle"]
    /\ worker_proxy = [w \in Workers |-> 0]
    /\ progress_lock = 0
    /\ progress_count = 0
    /\ speed_good = <<>>
    /\ speed_bad = <<>>
    /\ csv_rows = <<>>
    /\ snapshot = [good |-> <<>>, bad |-> <<>>, csv_rows |-> <<>>,
                   saves |-> 0, count |-> 0]

\* A new process: the module globals are initialised, main reads the three
\* proxy files and calls run_tests(http_list, "http"), which creates its
\* tasks.
StartMain ==
    /\ pc \in {"idle", "crashed"}
    /\ runs < MaxRuns
    /\ \E h \in ListsUpTo(MaxProxies), s5 \in ListsUpTo(MaxProxies),
          s4 \in ListsUpTo(MaxProxies) :
          /\ Len(h) + Len(s5) + Len(s4) <= MaxProxies
          /\ probes + Len(h) + Len(s5) + Len(s4) <= MaxProbes
          /\ probes' = probes + Len(h) + Len(s5) + Len(s4)
          /\ http_list' = h
          /\ socks5_list' = s5
          /\ socks4_list' = s4
          /\ tasks' = NewTasks(h)
    /\ runs' = runs + 1
    /\ pc' = "http"
    /\ sem' = CONCURRENT_LIMIT
    /\ completed' = <<>>
    /\ results' = <<>>
    /\ all_results' = <<>>
    /\ good' = <<>>
    /\ bad' = <<>>
    /\ history' = <<>>
    /\ failed' = <<>>
    /\ responded' = <<>>
    /\ sorted_rows' = <<>>
    /\ top_n' = <<>>
    /\ UNCHANGED <<history_file, log>>
    /\ UNCHANGED speedVars

\* Variant of CanAcquire: the limit test is off by one.
CanAcquireOffByOne == sem >= 0

\* Semaphore.acquire succeeds only while the value is positive.
CanAcquire == sem > 0

\* try_proxy: "async with sem" is entered.
Acquire(i) ==
    /\ pc \in Schemes
    /\ tasks[i] = "pending"
    /\ CanAcquire
    /\ sem' = sem - 1
    /\ tasks' = [tasks EXCEPT ![i] = "inflight"]
    /\ UNCHANGED <<pc, runs, http_list, socks5_list, socks4_list, completed,
                   results, all_results, good, bad, history_file, history,
                   failed, responded, sorted_rows, top_n, probes, log>>
    /\ UNCHANGED speedVars

\* try_proxy: the download went through; good.append, the semaphore is
\* released on leaving the with block, the tuple is returned.
Succeed(i, m) ==
    /\ pc \in Schemes
    /\ tasks[i] = "inflight"
    /\ good' = Append(good, Proxies[i])
    /\ sem' = sem + 1
    /\ tasks' = [tasks EXCEPT ![i] = "returned"]
    /\ completed' = Append(completed, GoodResult(Proxies[i], pc, m))
    /\ UNCHANGED <<pc, runs, http_list, socks5_list, socks4_list, results,
                   all_results, bad, history_file, history, failed,
                   responded, sorted_rows, top_n, probes, log>>
    /\ UNCHANGED speedVars

\* Variant of Fail: the slot is kept when the probe fails.
FailNoRelease(i) ==
    /\ pc \in Schemes
    /\ tasks[i] = "inflight"
    /\ bad' = Append(bad, Proxies[i])
    /\ tasks' = [tasks EXCEPT ![i] = "returned"]
    /\ completed' = Append(completed, BadResult(Proxies[i], pc))
    /\ UNCHANGED <<pc, runs, http_list, socks5_list, socks4_list, results,
                   all_results, good, history_file, history, failed,
                   responded, sorted_rows, top_n, probes, log, sem>>
    /\ UNCHANGED speedVars

\* try_proxy: a bad status, a connection error or the timeout raised inside
\* the with block; the semaphore is released, the except branch runs.
Fail(i) ==
    /\ pc \in Schemes
    /\ tasks[i] = "inflight"
    /\ bad' = Append(bad, Proxies[i])
    /\ sem' = sem + 1
    /\ tasks' = [tasks EXCEPT ![i] = "returned"]
    /\ completed' = Append(completed, BadResult(Proxies[i], pc))
    /\ UNCHANGED <<pc, runs, http_list, socks5_list, socks4_list, results,
                   all_results, good, history_file, history, failed,
                   responded, sorted_rows, top_n, probes, log>>
    /\ UNCHANGED speedVars

\* run_tests: res = await future; results.append(res), for the next future
\* as_completed yields, which is the earliest finished task not yet taken.
Collect ==
    /\ pc \in Schemes
    /\ completed # <<>>
    /\ results' = Append(results, Head(completed))
    /\ completed' = Tail(completed)
    /\ UNCHANGED <<pc, runs, http_list, socks5_list, socks4_list, tasks, sem,
                   all_results, good, bad, history_file, history, failed,
                   responded, sorted_rows, top_n, probes, log>>
    /\ UNCHANGED speedVars

\* Variant of LoopDone: the loop ends as soon as no finished task waits.
LoopDoneWhenNoneWaiting == completed = <<>>

\* The for loop of run_tests ends after len(tasks) results.
LoopDone == Len(results) = Len(tasks)

\* run_tests returns and main does all_results += results, then calls
\* run_tests for the next scheme, or goes on to the history.
ReturnRunTests ==
    /\ pc \in Schemes
    /\ LoopDone
    /\ all_results' = all_results \o results
    /\ results' = <<>>
    /\ completed' = <<>>
    /\ pc' = CASE pc = "http" -> "socks5"
               [] pc = "socks5" -> "socks4"
               [] pc = "socks4" -> "merge"
    /\ tasks' = CASE pc = "http" -> NewTasks(socks5_list)
                  [] pc = "socks5" -> NewTasks(socks4_list)
                  [] pc = "socks4" -> tasks
    /\ UNCHANGED <<runs, http_list, socks5_list, socks4_list, sem, good, bad,
                   history_file, history, failed, responded, sorted_rows,
                   top_n, probes, log>>
    /\ UNCHANGED speedVars

RECURSIVE LogResults(_, _, _)
\* The log after the results res of run r were appended.
LogResults(l, res, r) ==
    IF res = <<>> THEN l
    ELSE LogResults(
            [l EXCEPT ![Head(res).proxy] =
                Append(@, [score |-> Head(res).sc,
                           success |-> Head(res).success, run |-> r])],
            Tail(res), r)

\* main, lines 115-118: load_history, the merge loop, save_history.
Merge ==
    /\ pc = "merge"
    /\ history' = MergeResults(load_history(history_file), all_results)
    /\ history_file' = save_history(history')
    /\ log' = LogResults(log, all_results, runs)
    /\ pc' = "classify"
    /\ UNCHANGED <<runs, http_list, socks5_list, socks4_list, tasks, sem,
                   completed, results, all_results, good, bad, failed,
                   responded, sorted_rows, top_n, probes>>
    /\ UNCHANGED speedVars

\* load_history raises (HISTORY_FILE exists but cannot be opened, or a row
\* does not parse): there is no handler in load_history or in main, so the
\* exception leaves main and the process ends.
LoadHistoryRaises ==
    /\ pc = "merge"
    /\ history_file.exists
    /\ pc' = "crashed"
    /\ UNCHANGED <<runs, http_list, socks5_list, socks4_list, tasks, sem,
                   completed, results, all_results, good, bad, history_file,
                   history, failed, responded, sorted_rows, top_n, probes,
                   log>>
    /\ UNCHANGED speedVars

\* save_history raises on open(HISTORY_FILE, "w") after the merge loop: the
\* file keeps its old contents, and again nothing catches the exception.
SaveHistoryRaises ==
    /\ pc = "merge"
    /\ history' = MergeResults(load_history(history_file), all_results)
    /\ pc' = "crashed"
    /\ UNCHANGED <<runs, http_list, socks5_list, socks4_list, tasks, sem,
                   completed, results, all_results, good, bad, history_file,
                   failed, responded, sorted_rows, top_n, probes, log>>
    /\ UNCHANGED speedVars

\* main, lines 120-133: the failed and the responded list.
Classify ==
    /\ pc = "classify"
    /\ failed' = FailedOf(history)
    /\ responded' = RespondedOf(history)
    /\ pc' = "report"
    /\ UNCHANGED <<runs, http_list, socks5_list, socks4_list, tasks, sem,
                   completed, results, all_results, good, bad, history_file,
                   history, sorted_rows, top_n, probes, log>>
    /\ UNCHANGED speedVars

\* main, lines 135-169: rows, sorted_rows, the report, TopN and the
\* rotation list; the process ends.
Report ==
    /\ pc = "report"
    /\ sorted_rows' = Sorted(Rows(all_results, history))
    /\ top_n' = TopSlice(sorted_rows')
    /\ pc' = "idle"
    /\ UNCHANGED <<runs, http_list, socks5_list, socks4_list, tasks, sem,
                   completed, results, all_results, good, bad, history_file,
                   history, failed, responded, probes, log>>
    /\ UNCHANGED speedVars

Next ==
    \/ StartMain
    \/ \E i \in 1..Len(tasks) : Acquire(i)
    \/ \E i \in 1..Len(tasks), m \in Measurements : Succeed(i, m)
    \/ \E i \in 1..Len(tasks) : Fail(i)
    \/ Collect
    \/ ReturnRunTests
    \/ Merge
    \/ LoadHistoryRaises
    \/ SaveHistoryRaises
    \/ Classify
    \/ Report

Spec == Init /\ [][Next]_vars

\* The event loop runs every task that can run: a task waiting on the
\* semaphore is woken when a slot is free, the for loop of run_tests takes
\* each finished future, and run_tests returns once the loop is over. That
\* a probe holding a slot finishes is what aiohttp's total timeout and the
\* except branch of try_proxy provide.
Fairness ==
    /\ WF_vars(\E i \in DOMAIN tasks : Acquire(i))
    /\ WF_vars(\E i \in DOMAIN tasks :
                  Fail(i) \/ \E m \in Measurements : Succeed(i, m))
    /\ WF_vars(Collect)
    /\ WF_vars(ReturnRunTests)

\* The processes of the fair specification: termination of a batch does not
\* depend on how many runs came before, so fewer runs are followed.
NextFair ==
    \/ runs < MaxFairRuns /\ StartMain
    \/ \E i \in 1..Len(tasks) : Acquire(i)
    \/ \E i \in 1..Len(tasks), m \in Measurements : Succeed(i, m)
    \/ \E i \in 1..Len(tasks) : Fail(i)
    \/ Collect
    \/ ReturnRunTests
    \/ Merge
    \/ LoadHistoryRaises
    \/ SaveHistoryRaises
    \/ Classify
    \/ Report

SpecFair == Init /\ [][NextFair]_vars /\ Fairness

\* ------------------------------------------- test_proxies_speed.py
\* main, lines 98-106: the proxy file is read, total_proxies is set, the
\* pool is created and executor.map submits every proxy.
SpeedStart ==
    /\ speed_pc = "start"
    /\ \E n \in 0..MaxTotal : total_proxies' = n
    /\ speed_pc' = "pool"
    /\ UNCHANGED <<next_task, worker_pc, worker_proxy, progress_lock,
                   progress_count, speed_good, speed_bad, csv_rows, snapshot>>
    /\ UNCHANGED mainVars

\* A free worker thread takes the next submitted proxy and enters
\* test_proxy: lines 46-73, the requests, which touch no shared state.
TakeTask(w) ==
    /\ speed_pc = "pool"
    /\ worker_pc[w] = "idle"
    /\ next_task <= total_proxies
    /\ worker_proxy' = [worker_proxy EXCEPT ![w] = next_task]
    /\ next_task' = next_task + 1
    /\ worker_pc' = [worker_pc EXCEPT ![w] = "net"]
    /\ UNCHANGED <<speed_pc, total_proxies, progress_lock, progress_count,
                   speed_good, speed_bad, csv_rows, snapshot>>
    /\ UNCHANGED mainVars

\* Variant of LockFree: progress_lock excludes nobody.
LockNeverHeld == TRUE

\* threading.Lock: "with progress_lock" is entered only when it is free.
LockFree == progress_lock = 0

\* test_proxy, lines 75-76: the download succeeded; the lock is taken and
\* good.append runs.
GoodAppend(w) ==
    /\ worker_pc[w] = "net"
    /\ LockFree
    /\ progress_lock' = w
    /\ speed_good' = Append(speed_good, worker_proxy[w])
    /\ worker_pc' = [worker_pc EXCEPT ![w] = "csv"]
    /\ UNCHANGED <<speed_pc, total_proxies, next_task, worker_proxy,
                   progress_count, speed_bad, csv_rows, snapshot>>
    /\ UNCHANGED mainVars

\* test_proxy, line 77: csv_rows.append, the lock still held.
CsvAppend(w) ==
    /\ worker_pc[w] = "csv"
    /\ csv_rows' = Append(csv_rows, worker_proxy[w])
    /\ worker_pc' = [worker_pc EXCEPT ![w] = "count_good"]
    /\ UNCHANGED <<speed_pc, total_proxies, next_task, worker_proxy,
                   progress_lock, progress_count, speed_good, speed_bad,
                   snapshot>>
    /\ UNCHANGED mainVars

\* test_proxy, line 78: progress_count += 1, and the with block is left.
CountGood(w) ==
    /\ worker_pc[w] = "count_good"
    /\ progress_count' = progress_count + 1
    /\ progress_lock' = 0
    /\ worker_pc' = [worker_pc EXCEPT ![w] = "progress"]
    /\ UNCHANGED <<speed_pc, total_proxies, next_task, worker_proxy,
                   speed_good, speed_bad, csv_rows, snapshot>>
    /\ UNCHANGED mainVars

\* test_proxy, lines 80-82: a request raised; the lock is taken and
\* bad.append runs.
BadAppend(w) ==
    /\ worker_pc[w] = "net"
    /\ LockFree
    /\ progress_lock' = w
    /\ speed_bad' = Append(speed_bad, worker_proxy[w])
    /\ worker_pc' = [worker_pc EXCEPT ![w] = "count_bad"]
    /\ UNCHANGED <<speed_pc, total_proxies, next_task, worker_proxy,
                   progress_count, speed_good, csv_rows, snapshot>>
    /\ UNCHANGED mainVars

\* test_proxy, lines 83-84: progress_count += 1, and the with block is left.
CountBad(w) ==
    /\ worker_pc[w] = "count_bad"
    /\ progress_count' = progress_count + 1
    /\ progress_lock' = 0
    /\ worker_pc' = [worker_pc EXCEPT ![w] = "progress"]
    /\ UNCHANGED <<speed_pc, total_proxies, next_task, worker_proxy,
                   speed_good, speed_bad, csv_rows, snapshot>>
    /\ UNCHANGED mainVars

\* save_progress: the three files are rewritten from the global lists.
save_progress ==
    [good |-> speed_good, bad |-> speed_bad, csv_rows |-> csv_rows,
     saves |-> snapshot.saves + 1, count |-> progress_count]

\* test_proxy, line 94: the test on the value progress_count has now.
SaveDue ==
    progress_count % SAVE_INTERVAL = 0 \/ progress_count = total_proxies

\* test_proxy, lines 86-95: the second with block, taken anew: the progress
\* line is printed and save_progress runs if the count calls for it; the
\* task ends.
Progress(w) ==
    /\ worker_pc[w] = "progress"
    /\ LockFree
    /\ snapshot' = IF SaveDue THEN save_progress ELSE snapshot
    /\ worker_pc' = [worker_pc EXCEPT ![w] = "idle"]
    /\ UNCHANGED <<speed_pc, total_proxies, next_task, worker_proxy,
                   progress_lock, progress_count, speed_good, speed_bad,
                   csv_rows>>
    /\ UNCHANGED mainVars

\* main, line 105: the with block ends when every submitted task has ended.
PoolJoin ==
    /\ speed_pc = "pool"
    /\ next_task > total_proxies
    /\ \A w \in Workers : worker_pc[w] = "idle"
    /\ speed_pc' = "joined"
    /\ UNCHANGED <<total_proxies, next_task, worker_pc, worker_proxy,
                   progress_lock, progress_count, speed_good, speed_bad,
                   csv_rows, snapshot>>
    /\ UNCHANGED mainVars

\* main, line 108: the final save_progress.
FinalSave ==
    /\ speed_pc = "joined"
    /\ snapshot' = save_progress
    /\ speed_pc' = "done"
    /\ UNCHANGED <<total_proxies, next_task, worker_pc, worker_proxy,
                   progress_lock, progress_count, speed_good, speed_bad,
                   csv_rows>>
    /\ UNCHANGED mainVars

NextSpeed ==
    \/ SpeedStart
    \/ \E w \in Workers : TakeTask(w)
    \/ \E w \in Workers : GoodAppend(w)
    \/ \E w \in Workers : CsvAppend(w)
    \/ \E w \in Workers : CountGood(w)
    \/ \E w \in Workers : BadAppend(w)
    \/ \E w \in Workers : CountBad(w)
    \/ \E w \in Workers : Progress(w)
    \/ PoolJoin
    \/ FinalSave

SpecSpeed == Init /\ [][NextSpeed]_vars

\* ------------------------------------------------------------- claims
\* Number of proxies submitted in the current run.
Submitted == Len(http_list) + Len(socks5_list) + Len(socks4_list)

\* main is past its three run_tests calls.
PastJoin == pc \in {"merge", "classify", "report"}

\* A run of main has ended and no new one has begun.
RunDone == pc = "idle" /\ runs > 0

\* The proxies of the run in the order of the input: the http file, then
\* the socks5 file, then the socks4 file.
InputOrder ==
    [i \in 1..Len(http_list) |-> [proxy |-> http_list[i], scheme |-> "http"]]
    \o [i \in 1..Len(socks5_list) |->
           [proxy |-> socks5_list[i], scheme |-> "socks5"]]
    \o [i \in 1..Len(socks4_list) |->
           [proxy |-> socks4_list[i], scheme |-> "socks4"]]

\* Number of elements of the sequence q for address p and scheme s.
CountOf(q, p, s) ==
    Cardinality({i \in 1..Len(q) : q[i].proxy = p /\ q[i].scheme = s})

\* C1: at every moment the number of probes holding the semaphore is at
\* most CONCURRENT_LIMIT.
C1_InFlightBounded == Cardinality(InFlight) <= CONCURRENT_LIMIT

\* C1 witness: the limit is reached while another probe waits for a slot.
C1_Witness ==
    /\ Cardinality(InFlight) = CONCURRENT_LIMIT
    /\ \E i \in 1..Len(tasks) : tasks[i] = "pending"

\* C2: the merge, scoring and selection steps run only when every probe
\* dispatched in the run has terminated: none is pending or in flight, no
\* slot is held, and as many probes ended as were submitted.
C2_JoinBarrier ==
    PastJoin =>
        /\ \A i \in 1..Len(tasks) : tasks[i] = "returned"
        /\ sem = CONCURRENT_LIMIT
        /\ completed = <<>>
        /\ Len(good) + Len(bad) = Submitted

\* C2 witness: the merge step is reached after probes of two scheme lists.
C2_Witness ==
    /\ pc = "merge"
    /\ http_list # <<>>
    /\ socks4_list # <<>>

\* C3: when the probing of a run is over, every submitted (address, scheme)
\* line has exactly one result, and len(good) + len(bad) and
\* len(all_results) equal the number of proxies submitted.
C3_OneResultPerProxy ==
    (PastJoin \/ RunDone) =>
        /\ Len(good) + Len(bad) = Submitted
        /\ Len(all_results) = Submitted
        /\ \A p \in Addr, s \in Schemes :
              CountOf(all_results, p, s) = CountOf(InputOrder, p, s)
        /\ \A p \in Addr :
              Cardinality({i \in 1..Len(good) : good[i] = p})
              + Cardinality({i \in 1..Len(bad) : bad[i] = p})
              = Cardinality({i \in 1..Len(InputOrder) :
                                 InputOrder[i].proxy = p})

\* C3 witness: a finished run of three proxies, some good and some bad.
C3_Witness ==
    /\ RunDone
    /\ Submitted >= 3
    /\ good # <<>>
    /\ bad # <<>>

\* The last n elements of the sequence q (all of it when it is shorter).
LastN(q, n) == IF Len(q) <= n THEN q ELSE SubSeq(q, Len(q) - n + 1, Len(q))

\* The history entry e is the logged result l, up to the two decimals
\* that save_history keeps of a score.
SameEntry(e, l) == e.success = l.success /\ Fmt2(e.score) = Fmt2(l.score)

\* The entries q are the most recent HISTORY_MAX_RUNS results of proxy p,
\* oldest first.
IsRecentWindow(q, p) ==
    /\ Len(q) <= HISTORY_MAX_RUNS
    /\ Len(q) = Len(LastN(log[p], HISTORY_MAX_RUNS))
    /\ \A i \in 1..Len(q) : SameEntry(q[i], LastN(log[p], HISTORY_MAX_RUNS)[i])

\* The history dict is live: it was merged in this run.
HistoryMerged == pc \in {"classify", "report"} \/ RunDone

\* C4: after any number of runs every proxy's history, in memory and as
\* persisted, holds at most HISTORY_MAX_RUNS entries, which are the most
\* recent results of that proxy in chronological order (the oldest are the
\* ones evicted).
C4_HistoryWindow ==
    /\ \A p \in Addr :
          IsRecentWindow(Entries(load_history(history_file), p), p)
    /\ HistoryMerged =>
          \A p \in Addr : IsRecentWindow(Entries(history, p), p)

\* C4 witness: a proxy with more than HISTORY_MAX_RUNS results over at
\* least two runs, whose oldest result differs from the oldest retained.
C4_Witness ==
    /\ RunDone
    /\ \E p \in Addr :
          /\ Len(log[p]) > HISTORY_MAX_RUNS
          /\ Len(Entries(history, p)) = HISTORY_MAX_RUNS
          /\ log[p][1].run # log[p][Len(log[p])].run
          /\ log[p][1].success # Entries(history, p)[1].success

RECURSIVE Total(_, _)
\* Sum of the scores of the first n entries of q.
Total(q, n) == IF n = 0 THEN 0 ELSE Total(q, n - 1) + q[n].score

\* C5: in every report row the long-term score is the arithmetic mean of
\* the scores of the proxy's retained history (after this run's merge).
C5_LongTermIsMean ==
    RunDone =>
        \A i \in 1..Len(sorted_rows) :
            LET q == Entries(history, sorted_rows[i].proxy)
            IN  /\ q # <<>>
                /\ sorted_rows[i].lt.den > 0
                /\ sorted_rows[i].lt.num * Len(q)
                   = Total(q, Len(q)) * sorted_rows[i].lt.den

\* C5 witness: a row whose history has older entries, a failure among
\* them, and a mean that is neither the current score nor zero.
C5_Witness ==
    /\ RunDone
    /\ \E i \in 1..Len(sorted_rows) :
          LET q == Entries(history, sorted_rows[i].proxy)
          IN  /\ Len(q) >= 2
              /\ \E j \in 1..Len(q) : ~q[j].success
              /\ sorted_rows[i].lt.num # 0
              /\ sorted_rows[i].lt.num # sorted_rows[i].sc * sorted_rows[i].lt.den

\* The set of elements of a sequence.
Range(q) == {q[i] : i \in 1..Len(q)}

\* C6: a proxy is in the failed list iff its retained history has at least
\* MIN_TESTS_FOR_FAIL entries and the most recent MIN_TESTS_FOR_FAIL of
\* them all have success = false.
C6_FailedSet ==
    (pc = "report" \/ RunDone) =>
        \A p \in Addr :
            LET q == Entries(history, p)
            IN  p \in Range(failed) <=>
                    /\ Len(q) >= MIN_TESTS_FOR_FAIL
                    /\ \A e \in Range(LastN(q, MIN_TESTS_FOR_FAIL)) :
                          e.success = FALSE

\* C6 witness: one proxy is failed although its history holds an older
\* success, another has a history and is not failed.
C6_Witness ==
    /\ RunDone
    /\ \E p \in Range(failed) :
          \E e \in Range(Entries(history, p)) : e.success
    /\ \E p \in Addr \ Range(failed) : Entries(history, p) # <<>>

\* C7: a proxy is in the responded list iff at least one entry of its
\* history has success = true.
C7_RespondedSet ==
    (pc = "report" \/ RunDone) =>
        \A p \in Addr :
            p \in Range(responded) <=>
                \E e \in Range(Entries(history, p)) : e.success = TRUE

\* C7 witness: a responded proxy whose latest entry is a failure, and a
\* proxy with history that never responded.
C7_Witness ==
    /\ RunDone
    /\ \E p \in Range(responded) :
          ~Entries(history, p)[Len(Entries(history, p))].success
    /\ \E p \in Addr \ Range(responded) : Entries(history, p) # <<>>

\* The (address, scheme) lines of a sequence of rows or results.
Lines(q) == [i \in 1..Len(q) |-> [proxy |-> q[i].proxy, scheme |-> q[i].scheme]]

\* RotationList.txt: one scheme://proxy line per sorted row.
RotationOrder == Lines(sorted_rows)

\* TopProxies.txt: one scheme://proxy line per row of top_n.
TopN == Lines(top_n)

\* C8: the rotation order has one entry per probe result, its long-term
\* scores never increase, and TopN is its first
\* min(TOP_N_COUNT, number of results) entries in the same order.
C8_Ranking ==
    RunDone =>
        /\ Len(RotationOrder) = Len(all_results)
        /\ \A p \in Addr, s \in Schemes :
              CountOf(RotationOrder, p, s) = CountOf(all_results, p, s)
        /\ \A i \in 1..(Len(sorted_rows) - 1) :
              ~FracLess(sorted_rows[i].lt, sorted_rows[i + 1].lt)
        /\ Len(TopN) = (IF TOP_N_COUNT < Len(all_results)
                        THEN TOP_N_COUNT ELSE Len(all_results))
        /\ \A i \in 1..Len(TopN) : TopN[i] = RotationOrder[i]

\* C8 witness: more results than TOP_N_COUNT, a strict drop of the
\* long-term score, and an order that is not the order of the results.
C8_Witness ==
    /\ RunDone
    /\ Len(all_results) > TOP_N_COUNT
    /\ \E i \in 1..(Len(sorted_rows) - 1) :
          FracLess(sorted_rows[i + 1].lt, sorted_rows[i].lt)
    /\ RotationOrder # Lines(all_results)

\* The rows of the run arranged in the order of the input, with the
\* long-term score of each line's proxy.
InputRows ==
    [i \in 1..Len(InputOrder) |->
        [proxy |-> InputOrder[i].proxy, scheme |-> InputOrder[i].scheme,
         lt |-> LongTerm(Entries(history, InputOrder[i].proxy), 0)]]

\* C9: the ranking is the input sorted by long-term score descending, with
\* lines of equal long-term score in the order of the input, whatever order
\* the probes completed in.
C9_TiesInInputOrder ==
    RunDone => RotationOrder = Lines(Sorted(InputRows))

\* Number of results that run r appended to the history of proxy p.
AppendedIn(p, r) ==
    Cardinality({i \in 1..Len(log[p]) : log[p][i].run = r})

\* C10: in every run each probed (address, scheme) pair gets one result
\* appended to a history of its own, so that no history receives two
\* results from the same run.
C10_OneResultPerHistoryPerRun ==
    HistoryMerged =>
        /\ \A p \in Addr : AppendedIn(p, runs) <= 1
        /\ Cardinality({p \in Addr : AppendedIn(p, runs) > 0})
           = Cardinality(Range(InputOrder))

\* Every result the run holds: finished and waiting for the loop, taken by
\* the loop, or handed to main.
ResultsSoFar == all_results \o results \o completed

\* The state of every task but task i is the same after the step, and no
\* result already produced has changed.
OthersUntouched(i) ==
    /\ Len(tasks') = Len(tasks)
    /\ \A j \in 1..Len(tasks) : j # i => tasks'[j] = tasks[j]
    /\ SubSeq(completed', 1, Len(completed)) = completed
    /\ results' = results
    /\ all_results' = all_results
    /\ good' = good

\* C11: a failed probe yields success = false, score 0 and no latency or
\* throughput; every result has score >= 0; and the step in which a probe
\* fails leaves every other probe of the batch, and every result already
\* produced, as it was.
C11_FailureIsolated ==
    /\ [](\A k \in 1..Len(ResultsSoFar) :
            /\ ResultsSoFar[k].sc >= 0
            /\ ~ResultsSoFar[k].success =>
                  /\ ResultsSoFar[k].sc = 0
                  /\ ResultsSoFar[k].lat = None
                  /\ ResultsSoFar[k].spd = None)
    /\ [][Len(bad') > Len(bad) =>
            \E i \in 1..Len(tasks) :
                /\ tasks[i] = "inflight"
                /\ tasks'[i] = "returned"
                /\ OthersUntouched(i)]_vars

\* C11 witness: a run ended in whose http batch the first probe to finish
\* failed and the next one to finish succeeded.
C11_Witness ==
    /\ RunDone
    /\ Len(http_list) >= 2
    /\ Len(all_results) >= 2
    /\ ~all_results[1].success
    /\ all_results[2].success
    /\ all_results[2].scheme = "http"

\* C12: a failure of load_history or save_history does not propagate:
\* main never ends by the exception, it goes on to write its outputs.
C12_PersistenceFailSoft == pc # "crashed"

\* C13: with no persisted history load_history returns an empty history
\* and cannot raise; and a proxy whose history holds just the result of
\* its first-ever probe has longTermScore = the current score,
\* responseRate = 100 if the probe succeeded and 0 otherwise, and
\* responseAvg = 0 if it failed.
C13_FirstProbeStats ==
    /\ ~history_file.exists =>
          /\ load_history(history_file) = <<>>
          /\ ~ENABLED LoadHistoryRaises
    /\ RunDone =>
          \A i \in 1..Len(sorted_rows) :
              LET r == sorted_rows[i]
                  q == Entries(history, r.proxy)
              IN  Len(log[r.proxy]) = 1 =>
                      /\ Len(q) = 1
                      /\ r.lt.num = r.sc * r.lt.den
                      /\ q[1].success => r.rr.num = 100 * r.rr.den
                      /\ ~q[1].success => r.rr.num = 0 /\ r.ra.num = 0

\* C13 witness: the first run, with no history file before it, ended with
\* one proxy that succeeded and one that failed, each probed once.
C13_Witness ==
    /\ RunDone
    /\ runs = 1
    /\ Len(sorted_rows) = 2
    /\ sorted_rows[1].proxy # sorted_rows[2].proxy
    /\ sorted_rows[1].sc > 0
    /\ sorted_rows[2].lat = None

\* The proxy p was probed exactly once in each of the runs so far, every
\* run was merged into the history, and p failed every time.
FailedEveryRun(p) ==
    /\ \A r \in 1..runs : AppendedIn(p, r) = 1
    /\ \A k \in 1..Len(log[p]) : ~log[p][k].success

\* C14: from an empty history, a proxy probed once per run that fails every
\* time is never in the responded list, is not in the failed list after
\* fewer than MIN_TESTS_FOR_FAIL runs, and is in it after the
\* MIN_TESTS_FOR_FAIL-th run and after every later one.
C14_FailedAfterMRuns ==
    (pc = "report" \/ RunDone) =>
        \A p \in Addr :
            FailedEveryRun(p) =>
                /\ p \notin Range(responded)
                /\ p \in Range(failed) <=> runs >= MIN_TESTS_FOR_FAIL

\* C14 witness: a proxy that failed in each of more than MIN_TESTS_FOR_FAIL
\* runs.
C14_Witness ==
    /\ RunDone
    /\ runs > MIN_TESTS_FOR_FAIL
    /\ \E p \in Addr : FailedEveryRun(p)

\* C15: in every report row responseRate is 100 times the number of
\* successful entries over the number of entries of the proxy's retained
\* history, and lies between 0 and 100.
C15_ResponseRate ==
    RunDone =>
        \A i \in 1..Len(sorted_rows) :
            LET r == sorted_rows[i]
                q == Entries(history, r.proxy)
                n == Cardinality({k \in 1..Len(q) : q[k].success})
            IN  /\ q # <<>>
                /\ r.rr.den > 0
                /\ r.rr.num * Len(q) = 100 * n * r.rr.den
                /\ 0 <= r.rr.num
                /\ r.rr.num <= 100 * r.rr.den

\* C15 witness: a row whose rate is strictly between 0 and 100.
C15_Witness ==
    /\ RunDone
    /\ \E i \in 1..Len(sorted_rows) :
          /\ 0 < sorted_rows[i].rr.num
          /\ sorted_rows[i].rr.num < 100 * sorted_rows[i].rr.den

\* The entry e read back is the entry w that was written: the same success
\* flag, and the score of w at two decimals (within 0.005 of it).
ReadBack(e, w) ==
    /\ e.success = w.success
    /\ e.score % 10 = 0
    /\ e.score - w.score <= 5
    /\ w.score - e.score <= 5

\* C16: load_history applied to what save_history wrote gives the same
\* proxies in the same order, each with the same number of entries in the
\* same order, flags unchanged and scores as written; and the file is not
\* touched between the save of one run and the load of the next.
C16_HistoryRoundTrip ==
    /\ [](HistoryMerged =>
            LET l == load_history(history_file)
            IN  /\ Len(l) = Len(history)
                /\ \A i \in 1..Len(history) :
                      /\ l[i].proxy = history[i].proxy
                      /\ Len(l[i].entries) = Len(history[i].entries)
                      /\ \A j \in 1..Len(history[i].entries) :
                            ReadBack(l[i].entries[j], history[i].entries[j]))
    /\ [][pc # "merge" => history_file' = history_file]_vars

\* C16 witness: a saved history of two proxies, successes and failures
\* among its entries, one score of which changes in its third decimal
\* when written.
C16_Witness ==
    /\ HistoryMerged
    /\ Len(history) = 2
    /\ \E i \in 1..2 : Len(history[i].entries) >= 2
    /\ \E i \in 1..2 : \E j \in 1..Len(history[i].entries) :
          /\ history[i].entries[j].success
          /\ history[i].entries[j].score % 10 # 0
    /\ \E i \in 1..2 : \E j \in 1..Len(history[i].entries) :
          ~history[i].entries[j].success

\* The addresses probed in the current run.
Probed == {InputOrder[i].proxy : i \in 1..Len(InputOrder)}

\* The rows of proxy p in the history file, in file order.
FileRows(file, p) == SelectSeq(file.rows, LAMBDA r : r.Proxy = p)

\* C17: the merge and save of a run leave the history of every proxy that
\* is in the store and was not probed in the run as it was: the file holds
\* the same rows for it after the save as before the load, and the dict
\* holds exactly those rows as entries.
C17_UnprobedUntouched ==
    [][(pc = "merge" /\ pc' = "classify") =>
          \A p \in Addr \ Probed :
              /\ FileRows(history_file', p) = FileRows(history_file, p)
              /\ Len(Entries(history', p)) = Len(FileRows(history_file, p))
              /\ \A j \in 1..Len(Entries(history', p)) :
                    /\ Entries(history', p)[j].score
                       = 10 * FileRows(history_file, p)[j].Score
                    /\ Entries(history', p)[j].success
                       <=> FileRows(history_file, p)[j].Success = "1"]_vars

\* C17 witness: a merged run in which a proxy with stored rows was not
\* probed while another proxy was.
C17_Witness ==
    /\ HistoryMerged
    /\ Probed # {}
    /\ \E p \in Addr \ Probed :
          /\ FileRows(history_file, p) # <<>>
          /\ Entries(history, p) # <<>>

\* Number of processed proxies in the files save_progress last wrote.
SnapshotSize == Len(snapshot.good) + Len(snapshot.bad)

\* C18: results are saved after every SAVE_INTERVAL proxies: by the time
\* progress_count reaches the multiple (k + 1) * SAVE_INTERVAL, a snapshot
\* holding at least k * SAVE_INTERVAL processed proxies has been written.
C18_SavedEveryInterval ==
    \A k \in 1..MaxTotal :
        progress_count >= (k + 1) * SAVE_INTERVAL =>
            SnapshotSize >= k * SAVE_INTERVAL

\* The global lists and the counter agree.
Consistent ==
    /\ Len(speed_good) = Len(csv_rows)
    /\ Len(speed_good) + Len(speed_bad) = progress_count

\* C19: whenever progress_lock is free the lists and the counter agree,
\* every snapshot save_progress wrote was taken of lists that agreed with
\* each other and with the counter, and once the pool is joined
\* progress_count is the number of proxies submitted.
C19_NoPartialUpdate ==
    /\ progress_lock = 0 => Consistent
    /\ Len(snapshot.good) = Len(snapshot.csv_rows)
    /\ Len(snapshot.good) + Len(snapshot.bad) = snapshot.count
    /\ speed_pc \in {"joined", "done"} => progress_count = total_proxies

\* C19 witness: the pool is running with the lock free, a snapshot has
\* been written by a worker, both lists are non-empty, and one worker is
\* past its counted update while the other is still testing.
C19_Witness ==
    /\ speed_pc = "pool"
    /\ progress_lock = 0
    /\ snapshot.saves > 0
    /\ speed_good # <<>>
    /\ speed_bad # <<>>
    /\ \E w \in Workers : worker_pc[w] = "progress"
    /\ \E w \in Workers : worker_pc[w] = "net"

\* Every submitted probe of the batch acquires a slot and terminates.
ProbesTerminate ==
    \A i \in 1..MaxProxies :
        (pc \in Schemes /\ i \in DOMAIN tasks /\ tasks[i] = "pending")
            ~> (i \in DOMAIN tasks /\ tasks[i] = "returned")

\* run_tests returns: from inside any of the three batches main gets to
\* the history, which it does only after every remaining call returned.
RunTestsReturns == (pc \in Schemes) ~> (pc = "merge")

\* At the end of a batch no slot is held and the semaphore is back at its
\* limit.
SlotsBackAtBatchEnd ==
    [](pc \in Schemes /\ LoopDone =>
          InFlight = {} /\ sem = CONCURRENT_LIMIT)

\* A step in which a probe fails gives its slot back.
FailureReleases == [][Len(bad') > Len(bad) => sem' = sem + 1]_vars

\* C20: under the fairness of the event loop and with every probe that
\* holds a slot finishing, each submitted probe acquires a slot and
\* terminates and run_tests returns; the slot is released on failure too,
\* so no slot is held at the end of a batch and the capacity is whole
\* again.
C20_ProbesTerminateSlotsReleased ==
    /\ ProbesTerminate
    /\ RunTestsReturns
    /\ SlotsBackAtBatchEnd
    /\ FailureReleases

\* C20 witness: the last batch of a run is over with more probes than
\* slots in it, all of them failed, and the semaphore is at its limit.
C20_Witness ==
    /\ pc = "socks4"
    /\ LoopDone
    /\ Len(tasks) > CONCURRENT_LIMIT
    /\ Len(bad) = Len(tasks)
    /\ sem = CONCURRENT_LIMIT

\* Every failed entry of the entries q has score 0.
FailedScoreZero(q) == \A j \in 1..Len(q) : ~q[j].success => q[j].score = 0

\* C21: after any sequence of runs every failed entry of every proxy's
\* history, in memory and as persisted, has score 0; so in every report
\* row longTermScore times the number of retained entries equals
\* responseAvg times the number of successful retained entries,
\* responseAvg is at least longTermScore when the history has a success,
\* and longTermScore is 0 when it has none.
C21_FailedEntriesScoreZero ==
    /\ \A p \in Addr :
          /\ FailedScoreZero(Entries(history, p))
          /\ FailedScoreZero(Entries(load_history(history_file), p))
    /\ \A i \in 1..Len(sorted_rows) :
          LET q == Entries(history, sorted_rows[i].proxy)
              n == Len(q)
              k == Len(Successes(q))
              lt == sorted_rows[i].lt
              ra == sorted_rows[i].ra
          IN  /\ lt.num * n * ra.den = ra.num * k * lt.den
              /\ k > 0 => ~FracLess(ra, lt)
              /\ k = 0 => lt.num = 0

\* C21 witness: a finished run with one row whose history, partly read
\* back from the file, mixes failures with successes of non-zero score, so
\* that responseAvg is strictly above longTermScore, and another row whose
\* history has no success at all.
C21_Witness ==
    /\ RunDone
    /\ runs >= 2
    /\ \E i \in 1..Len(sorted_rows) :
          LET q == Entries(history, sorted_rows[i].proxy)
          IN  /\ Len(q) >= 2
              /\ Len(Successes(q)) \in 1..(Len(q) - 1)
              /\ FracLess(sorted_rows[i].lt, sorted_rows[i].ra)
              /\ sorted_rows[i].lt.num > 0
    /\ \E i \in 1..Len(sorted_rows) :
          LET q == Entries(history, sorted_rows[i].proxy)
          IN  q # <<>> /\ Successes(q) = <<>>

====
